---- MODULE Spec2Model ----
(***************************************************************************)
(* Eco-Saver: the `energy` application of src/main.py.                     *)
(*                                                                         *)
(* Two tables (Device, EnergyUsage), two model serializers, two model      *)
(* view sets routed under /devices/ and /energy-usage/, and the function   *)
(* view optimize_energy under /optimize/.  The record store is the state;  *)
(* every HTTP handler is one atomic action that consumes a request and     *)
(* produces a response.  Requests are served one at a time: a handler      *)
(* fires only when no request is being served, and Respond hands the       *)
(* response back and returns the server to waiting.                        *)
(*                                                                         *)
(* Wire values (JSON) are tagged: Str(<<chars>>), Num(n) or Missing (the   *)
(* key is absent from the map).  Text is a sequence of one-character       *)
(* strings so that trimming and length checks are computed, not assumed.   *)
(***************************************************************************)
EXTENDS Integers, Sequences, FiniteSets, TLC

VARIABLES
    devices,        \* table energy_device: set of rows [id, name, location]
    usages,         \* table energy_energyusage: rows [id, device, timestamp, energy_consumed]
    nextDeviceId,   \* the AutoField sequence of Device
    nextUsageId,    \* the AutoField sequence of EnergyUsage
    clock,          \* the time of the latest insert (timezone.now() never runs backwards here)
    created,        \* history: what each client POSTed for a Device, kept until that Device is updated or deleted
    request,        \* the request being served, NoRequest when waiting
    response        \* the response to it

vars == <<devices, usages, nextDeviceId, nextUsageId, clock, created, request, response>>
store == <<devices, usages, nextDeviceId, nextUsageId, clock>>

----------------------------------------------------------------------------
(* Bounds of the model. *)

MaxRows == 3        \* rows inserted over a run, both tables together
MaxTime == 1        \* the clock runs over 0..MaxTime

----------------------------------------------------------------------------
(* Wire values. *)

Missing == [t |-> "missing"]
Str(s) == [t |-> "str", v |-> s]
Num(n) == [t |-> "num", v |-> n]

Space == " "
Digits == <<"0", "1", "2", "3", "4", "5", "6", "7", "8", "9">>

IsDigit(c) == \E i \in 1..10 : Digits[i] = c
DigitValue(c) == (CHOOSE i \in 1..10 : Digits[i] = c) - 1

\* str.strip(): whitespace removed at both ends.
RECURSIVE lstrip(_)
lstrip(s) == IF s # <<>> /\ Head(s) = Space THEN lstrip(Tail(s)) ELSE s

RECURSIVE rstrip(_)
rstrip(s) == IF s # <<>> /\ s[Len(s)] = Space THEN rstrip(SubSeq(s, 1, Len(s) - 1)) ELSE s

strip(s) == rstrip(lstrip(s))

\* str(n) of a natural number.
RECURSIVE str(_)
str(n) == IF n < 10 THEN <<Digits[n + 1]>> ELSE str(n \div 10) \o <<Digits[(n % 10) + 1]>>

\* Whether float(s) / int(s) accepts the text: digits, whitespace around them allowed.
IsNumeral(s) == strip(s) # <<>> /\ \A i \in 1..Len(strip(s)) : IsDigit(strip(s)[i])

RECURSIVE numeral(_)
numeral(s) == IF s = <<>> THEN 0 ELSE 10 * numeral(SubSeq(s, 1, Len(s) - 1)) + DigitValue(s[Len(s)])

\* number(data), int(data) for a JSON number or a string (naturals only here).
number(data) == IF data.t = "num" THEN data.v ELSE numeral(strip(data.v))

\* datetime.isoformat() in UTC: injective, never parsed back by this application.
isoformat(t) == str(t) \o <<"Z">>

----------------------------------------------------------------------------
(* models.py *)

max_length == 100

\* The rows of Device, as Device.objects.all() yields them (no ordering declared).
Perms(S) == {s \in [1..Cardinality(S) -> S] : \A i, j \in 1..Cardinality(S) : s[i] = s[j] => i = j}

Device_objects_all == Perms(devices)

\* Variant without Meta.ordering: the rows in any order.
EnergyUsage_objects_unordered == Perms(usages)

\* EnergyUsage.Meta.ordering = ['-timestamp']: newest first, ties in any order.
EnergyUsage_objects_all ==
    {s \in Perms(usages) : \A i, j \in 1..Len(s) : i < j => s[i].timestamp >= s[j].timestamp}

\* get_object(): the rows of a table with primary key pk (none: Http404).
get_object(table, pk) == {o \in table : o.id = pk}

\* Variant with on_delete=models.DO_NOTHING.
DO_NOTHING(pk) == {}

\* on_delete=models.CASCADE: the EnergyUsage rows deleted together with Device pk.
CASCADE(pk) == {u \in usages : u.device = pk}

\* Variant that numbers a new row by the count of rows.
Device_create_counted(vd) ==
    [id |-> Cardinality(devices) + 1, name |-> vd.name, location |-> vd.location]

\* Model(**validated_data).save() on a new row: the sequence assigns the id.
Device_create(vd) == [id |-> nextDeviceId, name |-> vd.name, location |-> vd.location]

\* auto_now_add=True: the timestamp is the time of the insert.
EnergyUsage_create(vd, t) ==
    [id |-> nextUsageId, device |-> vd.device, timestamp |-> t,
     energy_consumed |-> vd.energy_consumed]

\* Variant with auto_now=True: every save stamps the row again.
Model_update_auto_now(instance, vd) ==
    [f \in DOMAIN instance |->
        IF f \in DOMAIN vd THEN vd[f] ELSE IF f = "timestamp" THEN clock ELSE instance[f]]

\* serializer.update(): setattr(instance, attr, value) for each validated attr.
\* An auto_now_add field is set on insert only, so an update leaves it alone.
Model_update(instance, vd) ==
    [f \in DOMAIN instance |-> IF f \in DOMAIN vd THEN vd[f] ELSE instance[f]]

\* instance.save() of a row that has a primary key: UPDATE ... WHERE id = pk.
Model_save(table, instance, saved) == (table \ {instance}) \cup {saved}

----------------------------------------------------------------------------
(* serializers.py: ModelSerializer with fields = '__all__'.  id (AutoField)  *)
(* and timestamp (auto_now_add, hence not editable) become read-only        *)
(* fields: they are written to the map and ignored when a map is read.      *)

Ok == "ok"

text(data) == IF data.t = "num" THEN str(data.v) ELSE data.v

\* serializers.CharField(max_length=100), required, allow_blank=False, trim_whitespace=True.
CharField_error(data, partial) ==
    IF data = Missing THEN (IF partial THEN Ok ELSE "required")
    ELSE IF strip(text(data)) = <<>> THEN "blank"
    ELSE IF Len(strip(text(data))) > max_length THEN "max_length"
    ELSE Ok

\* Variant with trim_whitespace=False.
CharField_to_internal_value_untrimmed(data) == text(data)

CharField_to_internal_value(data) == strip(text(data))

\* serializers.FloatField, required.
FloatField_error(data, partial) ==
    IF data = Missing THEN (IF partial THEN Ok ELSE "required")
    ELSE IF data.t = "str" /\ ~IsNumeral(data.v) THEN "invalid"
    ELSE Ok

FloatField_to_internal_value(data) == number(data)

\* Variant that does not look the key up (a plain integer field).
PrimaryKeyRelatedField_error_unchecked(data, partial) ==
    IF data = Missing THEN (IF partial THEN Ok ELSE "required")
    ELSE IF data.t = "str" /\ ~IsNumeral(data.v) THEN "incorrect_type"
    ELSE Ok

\* serializers.PrimaryKeyRelatedField(queryset=Device.objects.all()), required.
PrimaryKeyRelatedField_error(data, partial) ==
    IF data = Missing THEN (IF partial THEN Ok ELSE "required")
    ELSE IF data.t = "str" /\ ~IsNumeral(data.v) THEN "incorrect_type"
    ELSE IF get_object(devices, number(data)) = {} THEN "does_not_exist"
    ELSE Ok

PrimaryKeyRelatedField_to_internal_value(data) == number(data)

DeviceSerializer_writable == {"name", "location"}
EnergyUsageSerializer_writable == {"device", "energy_consumed"}

Present(data, fields) == {f \in fields : data[f] # Missing}

\* serializer.errors after is_valid(): one code per writable field.
DeviceSerializer_errors(data, partial) ==
    [f \in DeviceSerializer_writable |-> CharField_error(data[f], partial)]

EnergyUsageSerializer_errors(data, partial) ==
    [device |-> PrimaryKeyRelatedField_error(data.device, partial),
     energy_consumed |-> FloatField_error(data.energy_consumed, partial)]

is_valid(errors) == \A f \in DOMAIN errors : errors[f] = Ok

\* serializer.validated_data: the writable fields the map holds, converted.
DeviceSerializer_validated_data(data) ==
    [f \in Present(data, DeviceSerializer_writable) |-> CharField_to_internal_value(data[f])]

EnergyUsageSerializer_validated_data(data) ==
    [f \in Present(data, EnergyUsageSerializer_writable) |->
        IF f = "device" THEN PrimaryKeyRelatedField_to_internal_value(data[f])
        ELSE FloatField_to_internal_value(data[f])]

\* Variant that writes two fields under each other's name.
DeviceSerializer_to_representation_swapped(d) ==
    [id |-> Num(d.id), name |-> Str(d.location), location |-> Str(d.name)]

\* serializer.data: every declared field, under its own name.
DeviceSerializer_to_representation(d) ==
    [id |-> Num(d.id), name |-> Str(d.name), location |-> Str(d.location)]

EnergyUsageSerializer_to_representation(u) ==
    [id |-> Num(u.id), device |-> Num(u.device), timestamp |-> Str(isoformat(u.timestamp)),
     energy_consumed |-> Num(u.energy_consumed)]

----------------------------------------------------------------------------
(* The requests of the model. *)

LongText == [i \in 1..(max_length + 1) |-> "a"]

\* Text a client sends: clean, padded with whitespace, blank, too long.
NameInputs == {Missing, Str(<<"a">>), Str(<<" ", "b", " ">>), Str(<<" ">>), Str(LongText)}
LocationInputs == {Missing, Str(<<"x">>)}
EnergyInputs == {Missing, Num(1), Str(<<"2">>), Str(<<"x">>)}
IdInputs == {Missing, Num(1)}
\* The read-only fields of a reading: both left out, or both sent.
ReadOnlyInputs == {[id |-> Missing, timestamp |-> Missing],
                   [id |-> Num(1), timestamp |-> Str(isoformat(0))]}

\* The ids a request may name: those handed out so far and the next one,
\* which no row has had yet.
DevicePks == 1..nextDeviceId
UsagePks == 1..nextUsageId

\* Rows inserted so far.
Inserted == (nextDeviceId - 1) + (nextUsageId - 1)

DeviceBodies == [id : IdInputs, name : NameInputs, location : LocationInputs]

EnergyUsageBodies ==
    {[id |-> ro.id, device |-> device, timestamp |-> ro.timestamp, energy_consumed |-> energy] :
        ro \in ReadOnlyInputs, device \in {Missing} \cup {Num(i) : i \in DevicePks},
        energy \in EnergyInputs}

None == [t |-> "null"]
NoRequest == [method |-> "NONE"]
NoResponse == [status |-> 0]

Request(method, route, pk, data) == [method |-> method, route |-> route, pk |-> pk, data |-> data]
Response(data, status) == [status |-> status, data |-> data]

\* Variant in which DoesNotExist is not turned into Http404.
ServerError == Response([detail |-> "Server Error (500)"], 500)

NotFound == Response([detail |-> "Not found."], 404)

Waiting == request = NoRequest

Forget(pk) == {c \in created : c.id # pk}

----------------------------------------------------------------------------
(* views.py: DeviceViewSet(viewsets.ModelViewSet) *)

DeviceViewSet_list ==
    /\ Waiting
    /\ request' = Request("GET", "devices", 0, None)
    /\ \E queryset \in Device_objects_all :
         response' = Response([i \in 1..Len(queryset) |->
                                  DeviceSerializer_to_representation(queryset[i])], 200)
    /\ UNCHANGED <<store, created>>

DeviceViewSet_create ==
    /\ Waiting
    /\ Inserted < MaxRows
    /\ \E data \in DeviceBodies :
         LET errors == DeviceSerializer_errors(data, FALSE)
             instance == Device_create(DeviceSerializer_validated_data(data))
         IN /\ request' = Request("POST", "devices", 0, data)
            /\ IF ~is_valid(errors)
               THEN /\ response' = Response(errors, 400)
                    /\ UNCHANGED <<store, created>>
               ELSE /\ devices' = devices \cup {instance}
                    /\ nextDeviceId' = nextDeviceId + 1
                    /\ created' = created \cup
                           {[id |-> instance.id, name |-> data.name, location |-> data.location]}
                    /\ response' = Response(DeviceSerializer_to_representation(instance), 201)
                    /\ UNCHANGED <<usages, nextUsageId, clock>>

DeviceViewSet_retrieve ==
    /\ Waiting
    /\ \E pk \in DevicePks :
         /\ request' = Request("GET", "devices", pk, None)
         /\ IF get_object(devices, pk) = {}
            THEN response' = NotFound
            ELSE \E instance \in get_object(devices, pk) :
                   response' = Response(DeviceSerializer_to_representation(instance), 200)
    /\ UNCHANGED <<store, created>>

\* UpdateModelMixin.update(partial): get_object, is_valid, save.
DeviceViewSet_perform_update(method, pk, data, partial) ==
    /\ request' = Request(method, "devices", pk, data)
    /\ IF get_object(devices, pk) = {}
       THEN /\ response' = NotFound
            /\ UNCHANGED <<store, created>>
       ELSE \E instance \in get_object(devices, pk) :
              LET errors == DeviceSerializer_errors(data, partial)
                  saved == Model_update(instance, DeviceSerializer_validated_data(data))
              IN IF ~is_valid(errors)
                 THEN /\ response' = Response(errors, 400)
                      /\ UNCHANGED <<store, created>>
                 ELSE /\ devices' = Model_save(devices, instance, saved)
                      /\ created' = Forget(pk)
                      /\ response' = Response(DeviceSerializer_to_representation(saved), 200)
                      /\ UNCHANGED <<usages, nextDeviceId, nextUsageId, clock>>

\* Variant in which PUT validates as PATCH does.
DeviceViewSet_update_as_partial ==
    /\ Waiting
    /\ \E pk \in DevicePks, data \in DeviceBodies :
         DeviceViewSet_perform_update("PUT", pk, data, TRUE)

DeviceViewSet_update ==
    /\ Waiting
    /\ \E pk \in DevicePks, data \in DeviceBodies :
         DeviceViewSet_perform_update("PUT", pk, data, FALSE)

DeviceViewSet_partial_update ==
    /\ Waiting
    /\ \E pk \in DevicePks, data \in DeviceBodies :
         DeviceViewSet_perform_update("PATCH", pk, data, TRUE)

DeviceViewSet_destroy ==
    /\ Waiting
    /\ \E pk \in DevicePks :
         /\ request' = Request("DELETE", "devices", pk, None)
         /\ IF get_object(devices, pk) = {}
            THEN /\ response' = NotFound
                 /\ UNCHANGED <<store, created>>
            ELSE /\ devices' = devices \ get_object(devices, pk)
                 /\ usages' = usages \ CASCADE(pk)
                 /\ created' = Forget(pk)
                 /\ response' = Response(None, 204)
                 /\ UNCHANGED <<nextDeviceId, nextUsageId, clock>>

----------------------------------------------------------------------------
(* views.py: EnergyUsageViewSet(viewsets.ModelViewSet) *)

EnergyUsageViewSet_list ==
    /\ Waiting
    /\ request' = Request("GET", "energy-usage", 0, None)
    /\ \E queryset \in EnergyUsage_objects_all :
         response' = Response([i \in 1..Len(queryset) |->
                                  EnergyUsageSerializer_to_representation(queryset[i])], 200)
    /\ UNCHANGED <<store, created>>

EnergyUsageViewSet_create ==
    /\ Waiting
    /\ Inserted < MaxRows
    /\ \E data \in EnergyUsageBodies, now \in clock..MaxTime :
         LET errors == EnergyUsageSerializer_errors(data, FALSE)
             instance == EnergyUsage_create(EnergyUsageSerializer_validated_data(data), now)
         IN /\ request' = Request("POST", "energy-usage", 0, data)
            /\ IF ~is_valid(errors)
               THEN /\ response' = Response(errors, 400)
                    /\ UNCHANGED store
               ELSE /\ usages' = usages \cup {instance}
                    /\ nextUsageId' = nextUsageId + 1
                    /\ clock' = now
                    /\ response' = Response(EnergyUsageSerializer_to_representation(instance), 201)
                    /\ UNCHANGED <<devices, nextDeviceId>>
    /\ UNCHANGED created

EnergyUsageViewSet_retrieve ==
    /\ Waiting
    /\ \E pk \in UsagePks :
         /\ request' = Request("GET", "energy-usage", pk, None)
         /\ IF get_object(usages, pk) = {}
            THEN response' = NotFound
            ELSE \E instance \in get_object(usages, pk) :
                   response' = Response(EnergyUsageSerializer_to_representation(instance), 200)
    /\ UNCHANGED <<store, created>>

EnergyUsageViewSet_perform_update(method, pk, data, partial) ==
    /\ request' = Request(method, "energy-usage", pk, data)
    /\ IF get_object(usages, pk) = {}
       THEN /\ response' = NotFound
            /\ UNCHANGED store
       ELSE \E instance \in get_object(usages, pk) :
              LET errors == EnergyUsageSerializer_errors(data, partial)
                  saved == Model_update(instance, EnergyUsageSerializer_validated_data(data))
              IN IF ~is_valid(errors)
                 THEN /\ response' = Response(errors, 400)
                      /\ UNCHANGED store
                 ELSE /\ usages' = Model_save(usages, instance, saved)
                      /\ response' = Response(EnergyUsageSerializer_to_representation(saved), 200)
                      /\ UNCHANGED <<devices, nextDeviceId, nextUsageId, clock>>
    /\ UNCHANGED created

EnergyUsageViewSet_update ==
    /\ Waiting
    /\ \E pk \in UsagePks, data \in EnergyUsageBodies :
         EnergyUsageViewSet_perform_update("PUT", pk, data, FALSE)

EnergyUsageViewSet_partial_update ==
    /\ Waiting
    /\ \E pk \in UsagePks, data \in EnergyUsageBodies :
         EnergyUsageViewSet_perform_update("PATCH", pk, data, TRUE)

EnergyUsageViewSet_destroy ==
    /\ Waiting
    /\ \E pk \in UsagePks :
         /\ request' = Request("DELETE", "energy-usage", pk, None)
         /\ IF get_object(usages, pk) = {}
            THEN /\ response' = NotFound
                 /\ UNCHANGED store
            ELSE /\ usages' = usages \ get_object(usages, pk)
                 /\ response' = Response(None, 204)
                 /\ UNCHANGED <<devices, nextDeviceId, nextUsageId, clock>>
    /\ UNCHANGED created

----------------------------------------------------------------------------
(* views.py: optimize_energy, @api_view(['GET']) *)

optimization_message == [status |-> "success", message |-> "Energy optimization in progress."]

error_message(e) == [status |-> "error", message |-> e]

\* Variant whose try block raises.
optimization_fails == TRUE

\* Whether the body of the try block raises: it builds a dict and a Response.
optimization_raises == FALSE

optimize_energy ==
    /\ Waiting
    /\ request' = Request("GET", "optimize", 0, None)
    /\ IF optimization_raises
       THEN response' = Response(error_message("Exception"), 500)
       ELSE response' = Response(optimization_message, 200)
    /\ UNCHANGED <<store, created>>

----------------------------------------------------------------------------
(* The response is returned to the client; the server waits for the next request. *)

Respond ==
    /\ ~Waiting
    /\ request' = NoRequest
    /\ response' = NoResponse
    /\ UNCHANGED <<store, created>>

Init ==
    /\ devices = {}
    /\ usages = {}
    /\ nextDeviceId = 1
    /\ nextUsageId = 1
    /\ clock = 0
    /\ created = {}
    /\ request = NoRequest
    /\ response = NoResponse

Next ==
    \/ DeviceViewSet_list
    \/ DeviceViewSet_create
    \/ DeviceViewSet_retrieve
    \/ DeviceViewSet_update
    \/ DeviceViewSet_partial_update
    \/ DeviceViewSet_destroy
    \/ EnergyUsageViewSet_list
    \/ EnergyUsageViewSet_create
    \/ EnergyUsageViewSet_retrieve
    \/ EnergyUsageViewSet_update
    \/ EnergyUsageViewSet_partial_update
    \/ EnergyUsageViewSet_destroy
    \/ optimize_energy
    \/ Respond

Spec == Init /\ [][Next]_vars

----------------------------------------------------------------------------
(* Properties. *)

ids(table) == {o.id : o \in table}

\* The handler that served `req` was a view-set handler of `route` and `methods`.
Serves(req, route, methods) == req # NoRequest /\ req.route = route /\ req.method \in methods

Writes == {"POST", "PUT", "PATCH"}
Detail == {"GET", "PUT", "PATCH", "DELETE"}

table(route) == IF route = "devices" THEN devices ELSE usages

tableAfter(route) == IF route = "devices" THEN devices' ELSE usages'

\* C1: right after a successful DELETE of a Device, the Device is gone and no
\* EnergyUsage row refers to it: its readings are removed in the same step.
C1_DeleteCascades ==
    [][(Serves(request', "devices", {"DELETE"}) /\ get_object(devices, request'.pk) # {})
          => /\ response'.status = 204
             /\ get_object(devices', request'.pk) = {}
             /\ \A u \in usages' : u.device # request'.pk
             /\ \A u \in usages : u.device # request'.pk => u \in usages']_vars

\* The only Device was deleted after two readings were taken for it, and no
\* reading is left.
C1_Witness ==
    /\ Serves(request, "devices", {"DELETE"})
    /\ response.status = 204
    /\ nextDeviceId = 2
    /\ nextUsageId = 3
    /\ usages = {}

\* What a client that POSTed `c` and then GETs /devices/{c.id}/ is told, had
\* the values been stored as sent.
AsSent(c) == [id |-> Num(c.id), name |-> c.name, location |-> c.location]

\* The same, with the whitespace around each text removed.
AsStripped(c) ==
    [id |-> Num(c.id), name |-> Str(strip(c.name.v)), location |-> Str(strip(c.location.v))]

\* C2 as stated: a Device read by the id its create returned, with no update or
\* delete of that id in between, has the id, name and location that were sent.
C2_ReadReturnsWhatWasSent ==
    Serves(request, "devices", {"GET"}) =>
        \A c \in created : c.id = request.pk =>
            response.status = 200 /\ response.data = AsSent(c)

\* C2, amended: it has that id, and the name and location that were sent with
\* leading and trailing whitespace removed.
C2_ReadReturnsWhatWasSentStripped ==
    Serves(request, "devices", {"GET"}) =>
        \A c \in created : c.id = request.pk =>
            response.status = 200 /\ response.data = AsStripped(c)

\* A Device sent with a padded name is read back while another Device, created
\* before it, has been updated in between.
C2_Witness ==
    /\ Serves(request, "devices", {"GET"})
    /\ response.status = 200
    /\ request.pk = 2
    /\ \E c \in created : c.id = 2 /\ c.name = Str(<<" ", "b", " ">>)
    /\ \E d \in devices : d.id = 1 /\ d.name = <<"b">>
    /\ \A c \in created : c.id # 1

\* The stored row a listed or returned representation stands for.
row(tbl, rep) == CHOOSE o \in tbl : o.id = rep.id.v

\* C3: a listing of EnergyUsage holds every stored row once, and of two listed
\* rows with different timestamps the newer one comes first.
C3_ListNewestFirst ==
    (Serves(request, "energy-usage", {"GET"}) /\ request.pk = 0) =>
        /\ response.status = 200
        /\ Len(response.data) = Cardinality(usages)
        /\ {response.data[i].id.v : i \in 1..Len(response.data)} = ids(usages)
        /\ \A i, j \in 1..Len(response.data) :
             row(usages, response.data[i]).timestamp < row(usages, response.data[j]).timestamp
                => j < i

\* Two readings with different timestamps are listed, the newer one first.
C3_Witness ==
    /\ Serves(request, "energy-usage", {"GET"})
    /\ request.pk = 0
    /\ Len(response.data) = 2
    /\ row(usages, response.data[1]).timestamp > row(usages, response.data[2]).timestamp

\* C4: a GET, PUT, PATCH or DELETE of an id that is not in the table answers
\* 404 and changes no row of either table.
C4_UnknownIdIsNotFound ==
    [][(/\ request' # NoRequest
        /\ request'.route \in {"devices", "energy-usage"}
        /\ request'.method \in Detail
        /\ request'.pk # 0
        /\ get_object(table(request'.route), request'.pk) = {})
          => /\ response'.status = 404
             /\ devices' = devices
             /\ usages' = usages]_vars

\* A reading that was created and then removed with its Device is addressed.
C4_Witness ==
    /\ Serves(request, "energy-usage", {"PATCH"})
    /\ response.status = 404
    /\ request.pk < nextUsageId
    /\ devices = {}
    /\ nextDeviceId = 2

\* C5: GET /optimize/ answers 200 with status "success" and the fixed message,
\* never the error payload, and changes nothing in the store.
C5_OptimizeAlwaysSucceeds ==
    [][(request' # NoRequest /\ request'.route = "optimize")
          => /\ response'.status = 200
             /\ response'.data.status = "success"
             /\ response'.data.message = "Energy optimization in progress."
             /\ store' = store]_vars

\* The endpoint is called on a store that holds devices and readings.
C5_Witness ==
    /\ request # NoRequest
    /\ request.route = "optimize"
    /\ response.status = 200
    /\ devices # {}
    /\ usages # {}

\* The declared fields of each record kind.
Device_fields == {"id", "name", "location"}
EnergyUsage_fields == {"id", "device", "timestamp", "energy_consumed"}

\* Reading back the map written for a stored row gives, in every field of
\* `fields`, the row's own value.
RoundTrip(o, validated, fields) ==
    /\ DOMAIN validated = fields
    /\ \A f \in fields : validated[f] = o[f]

\* C6 as stated: serializing a stored record and deserializing the map gives
\* a record equal to the original in every declared field.
C6_RoundTripEveryField ==
    /\ \A d \in devices :
         LET data == DeviceSerializer_to_representation(d)
         IN /\ is_valid(DeviceSerializer_errors(data, FALSE))
            /\ RoundTrip(d, DeviceSerializer_validated_data(data), Device_fields)
    /\ \A u \in usages :
         LET data == EnergyUsageSerializer_to_representation(u)
         IN /\ is_valid(EnergyUsageSerializer_errors(data, FALSE))
            /\ RoundTrip(u, EnergyUsageSerializer_validated_data(data), EnergyUsage_fields)

\* C6, amended: the map written for a stored record is valid input, and reading
\* it back gives the original's value in every writable field (Device: name,
\* location; EnergyUsage: device, energy_consumed) and no other field: id and
\* timestamp are written but not read.  Applied to the original record, the
\* values read back leave it as it was.
C6_RoundTripWritableFields ==
    /\ \A d \in devices :
         LET data == DeviceSerializer_to_representation(d)
         IN /\ is_valid(DeviceSerializer_errors(data, FALSE))
            /\ RoundTrip(d, DeviceSerializer_validated_data(data), {"name", "location"})
            /\ Model_update(d, DeviceSerializer_validated_data(data)) = d
    /\ \A u \in usages :
         LET data == EnergyUsageSerializer_to_representation(u)
         IN /\ is_valid(EnergyUsageSerializer_errors(data, FALSE))
            /\ RoundTrip(u, EnergyUsageSerializer_validated_data(data),
                         {"device", "energy_consumed"})
            /\ Model_update(u, EnergyUsageSerializer_validated_data(data)) = u

\* A client has PUT back the very map a reading is serialized to, and a Device
\* with a second name is in the store.
C6_Witness ==
    /\ Serves(request, "energy-usage", {"PUT"})
    /\ response.status = 200
    /\ \E u \in usages :
         u.id = request.pk /\ request.data = EnergyUsageSerializer_to_representation(u)
    /\ \E d \in devices : d.name = <<"b">>

\* C7: no two Device rows share an id and no two EnergyUsage rows share an id.
C7_IdsAreUnique ==
    /\ \A d1, d2 \in devices : d1.id = d2.id => d1 = d2
    /\ \A u1, u2 \in usages : u1.id = u2.id => u1 = u2

\* A reading is created after the first reading was deleted.
C7_Witness ==
    /\ Serves(request, "energy-usage", {"POST"})
    /\ response.status = 201
    /\ ids(usages) = {2}

\* C8: a PUT or PATCH changes no id and no timestamp, whatever the body holds
\* for them: both tables keep their ids, every reading keeps its timestamp,
\* and the record returned is the one addressed.
C8_UpdateKeepsIdAndTimestamp ==
    [][(request' # NoRequest /\ request'.method \in {"PUT", "PATCH"})
          => /\ ids(devices') = ids(devices)
             /\ ids(usages') = ids(usages)
             /\ \A u \in usages : \E v \in usages' : v.id = u.id /\ v.timestamp = u.timestamp
             /\ response'.status = 200 => response'.data.id = Num(request'.pk)]_vars

\* An accepted PUT of a reading whose body names another id and another
\* timestamp than the reading's own.
C8_Witness ==
    /\ Serves(request, "energy-usage", {"PUT"})
    /\ response.status = 200
    /\ request.data.id \notin {Missing, Num(request.pk)}
    /\ request.data.timestamp \notin {Missing, response.data.timestamp}

\* The map of a write lacks a required field.
LacksRequired(req) ==
    IF req.route = "devices"
    THEN req.data.name = Missing \/ req.data.location = Missing
    ELSE req.data.device = Missing \/ req.data.energy_consumed = Missing

IsWrite(req) ==
    req # NoRequest /\ req.route \in {"devices", "energy-usage"} /\ req.method \in Writes

\* The record a PUT or PATCH addresses is in the store (a POST addresses none).
Addressed(req) == req.method = "POST" \/ get_object(table(req.route), req.pk) # {}

\* C9 as stated: on POST, PUT and PATCH alike, a map that lacks a required
\* field is rejected with a validation error and the store is left as it was.
C9_MissingFieldRejectedOnEveryRoute ==
    [][(IsWrite(request') /\ Addressed(request') /\ LacksRequired(request'))
          => response'.status = 400 /\ store' = store]_vars

\* C9, amended: on POST, and on PUT of a record in the store, such a map is
\* rejected with a validation error and the store is left as it was.  PATCH
\* does not require the fields: a field the map lacks keeps its stored value.
C9_MissingFieldRejectedOnPostAndPut ==
    [][/\ (IsWrite(request') /\ Addressed(request') /\ LacksRequired(request')
             /\ request'.method # "PATCH")
          => response'.status = 400 /\ store' = store
       /\ (IsWrite(request') /\ request'.method = "PATCH" /\ response'.status = 200)
          => \A o \in get_object(table(request'.route), request'.pk) :
               \E saved \in get_object(tableAfter(request'.route), request'.pk) :
                 \A f \in DOMAIN o : request'.data[f] = Missing => saved[f] = o[f]]_vars

\* A PUT that lacks a field was rejected, for a reading in the store.
C9_Witness ==
    /\ Serves(request, "energy-usage", {"PUT"})
    /\ response.status = 400
    /\ request.data.device = Missing
    /\ request.data.energy_consumed # Missing
    /\ response.data.energy_consumed = Ok

\* Whether a write names, for a reading's device, a Device that is not in the store.
NamesUnknownDevice(req) ==
    /\ Serves(req, "energy-usage", Writes)
    /\ req.data.device # Missing
    /\ get_object(devices, number(req.data.device)) = {}

\* C10: after every step each EnergyUsage row refers to exactly one Device in
\* the store, and a create or update that names a Device not in the store is
\* refused and changes nothing.
C10_ReferentialIntegrity ==
    [][/\ \A u \in usages' : Cardinality(get_object(devices', u.device)) = 1
       /\ NamesUnknownDevice(request')
            => response'.status \in {400, 404} /\ store' = store]_vars

\* A reading of one Device was refused a move to a Device that had been deleted.
C10_Witness ==
    /\ Serves(request, "energy-usage", {"PATCH"})
    /\ response.status = 400
    /\ response.data.device = "does_not_exist"
    /\ request.data.device = Num(1)
    /\ nextDeviceId > 2
    /\ \E u \in usages : u.id = request.pk /\ u.device = 2

====
